---- MODULE Spec2Model ----
(***************************************************************************)
(* A model of the training extensions of rnn/extensions.py:                *)
(*   - EarlyStopping (do, _dump) driven by an epoch loop,                  *)
(*   - ResetStates,                                                        *)
(*   - TextGenerationExtension (do, interactive_generate, sample,         *)
(*     softmax),                                                           *)
(* and of the graph builders of build_model.py and                         *)
(* rnn/build_model/build_model_utils.py (output layer, used-inputs         *)
(* horizon, target mask).                                                  *)
(* Optional values (a missing dictionary key, Python's None returned by    *)
(* dict.get) are sets with at most one element: {} is "absent", {v} is v.  *)
(***************************************************************************)
EXTENDS Integers, Sequences, FiniteSets, TLC

\* ------------------------------------------------------------------ bounds
MaxEpochs == 4      \* epochs (triggers of the after_epoch callback) in a run
MaxValue == 2       \* the monitored metric takes values 0..MaxValue
MaxPatience == 3    \* patience is drawn from 1..MaxPatience
NumStateVars == 3   \* persistent state tensors (a state and a cell per layer)
TensorSize == 2     \* cells of a state tensor
VocabSize == 2      \* symbols of the vocabulary (values of a feature)
MaxHidden == 1      \* the hidden state of the model is in 0..MaxHidden
MaxGenLength == 2   \* generation_length is in 0..MaxGenLength
MaxPrefix == 2      \* length of the sequences and texts given to generation
MaxRuns == 2        \* generation runs
MaxLayers == 2      \* args.layers is in 1..MaxLayers
MaxStateDim == 2    \* args.state_dim is in 1..MaxStateDim
MaxTime == 2        \* timesteps of a batch given to a graph

Values == 0..MaxValue
Selectors == {"min", "max"}

VARIABLES
    \* EarlyStopping
    counter,        \* self.counter
    patience,       \* self.patience
    choose_best,    \* self.choose_best: "min" (the default) or "max"
    status,         \* main_loop.status.get(best_name): {} or {best value}
    row,            \* main_loop.log.current_row, the keys this extension uses
    disk,           \* what <path>/log.txt and <path>/best hold
    pc,             \* "train" | "callback" | "raised" | "idle"
    hist,           \* the monitored value of every row a trigger has seen
    last,           \* the branch and the save outcome of the last trigger
    ndump,          \* number of calls of _dump so far
    \* ResetStates
    state_vars,     \* the persistent state tensors (theano shared variables)
    reset_vars,     \* the state_vars given to ResetStates.__init__
    rs_last,        \* the last operation on the state tensors
    \* TextGenerationExtension
    has_indices,        \* self.has_indices: categorical (index) dataset
    softmax_sampling,   \* self.softmax_sampling: "argmax" or "random_sample"
    generation_length,  \* self.generation_length
    init_length,        \* self.init_length
    model,              \* the weights of the trained model (fixed)
    gen_state,          \* the persistent hidden state of self.generate
    g_start,            \* the hidden state the last such call started from
    g_out,              \* the last timestep's output of the last such call
    g_pc,               \* "idle" | "loop"
    g_entry,            \* "do" | "interactive"
    g_prefix,           \* do: init_; interactive_generate: initial_text
    g_codes,            \* interactive_generate: initial_code before np.array
    g_arr,              \* what the sequence array is: "int" | "empty" | "object"
    g_text,             \* generated_text / inputs_
    g_i,                \* the loop index
    g_n,                \* the number of iterations of this run
    g_invoked,          \* invocations of self.generate in this run
    gen_calls,          \* flips at every call of self.generate that returns
    collect,            \* whether the results of the runs are collected
    runs,               \* the results of the runs that ended, in order
    \* graph builders
    args,           \* the parsed command line (the fields the builders read)
    bm_fn,          \* the builder that ran last
    bm_in,          \* the batch its graph was given, one value per timestep
    bm_out,         \* get_prernn: x as forked; get_costs: y_mask
    output_layer    \* {} or {the output_layer brick the builder made}

esvars == <<counter, patience, choose_best, status, row, disk, pc, hist, last, ndump>>
rsvars == <<state_vars, reset_vars, rs_last>>
gencfg == <<has_indices, softmax_sampling, generation_length, init_length, model, collect>>
genrun == <<g_pc, g_entry, g_prefix, g_codes, g_arr, g_text, g_i, g_n, g_invoked>>
genvars == <<gencfg, gen_state, gen_calls, g_start, g_out, genrun, runs>>

bmvars == <<args, bm_fn, bm_in, bm_out, output_layer>>

vars == <<esvars, rsvars, genvars, bmvars>>

\* ------------------------------------------------------- EarlyStopping

\* A row the main loop has just opened: only the monitored record may be set.
FreshRow(rec) ==
    [record |-> rec, notification |-> FALSE, saved_best_to |-> "absent",
     training_finish_requested |-> FALSE, patience |-> {}]

\* A variant that ignores the configured selector and always takes the minimum.
ChooseBest_AlwaysMin(sel, a, b) == IF a <= b THEN a ELSE b

\* self.choose_best(current_value, best_value) for the builtins min and max.
ChooseBest(sel, a, b) ==
    IF sel = "min" THEN (IF a <= b THEN a ELSE b) ELSE (IF a >= b THEN a ELSE b)

\* A variant that leaves out the test current_value != best_value.
IsNewBest_NoStrict(cur, best, sel) ==
    \/ best = {}
    \/ \E b \in best : ChooseBest(sel, cur, b) = cur

\* The condition of the if at the head of the new-best branch.
IsNewBest(cur, best, sel) ==
    \/ best = {}
    \/ \E b \in best : cur # b /\ ChooseBest(sel, cur, b) = cur

\* A variant with a strict comparison.
ReachedPatience_Strict(c, p) == c > p

\* if self.counter >= self.patience
ReachedPatience(c, p) == c >= p

\* A variant that records the patience left instead of the counter.
EndOfDo_Remaining(r, c, p) ==
    [r EXCEPT !.training_finish_requested = IF ReachedPatience(c, p) THEN TRUE ELSE @,
              !.patience = {p - c}]

\* The two statements that end do(): the termination request and 'patience'.
EndOfDo(r, c, p) ==
    [r EXCEPT !.training_finish_requested = IF ReachedPatience(c, p) THEN TRUE ELSE @,
              !.patience = {c}]

SaveOutcomes == {"ok", "log_fail", "dump_fail"}
Failed == {"log_fail", "dump_fail"}

\* A variant without the except clause: the path stays in the row.
DumpRow_NoClear(r, outcome) == [r EXCEPT !.saved_best_to = "best_path"]

\* _dump's effect on the row: the path is recorded first, and the except
\* clause replaces it by None when the log write or secure_dump raised.
DumpRow(r, outcome) ==
    [r EXCEPT !.saved_best_to = IF outcome \in Failed THEN "None" ELSE "best_path"]

\* _dump's effect on the files: log.txt is written before the parameters;
\* secure_dump replaces <path>/best only when it succeeds.
DumpDisk(d, outcome, nrows, cur) ==
    CASE outcome = "ok" -> [log |-> {nrows}, best |-> {cur}]
      [] outcome = "dump_fail" -> [d EXCEPT !.log = {nrows}]
      [] OTHER -> d

\* A variant that indexes the row instead of using get(): a missing key raises.
DoAbsent_KeyError ==
    /\ pc = "callback"
    /\ row.record = {}
    /\ pc' = "raised"
    /\ hist' = Append(hist, row.record)
    /\ last' = [branch |-> "absent", outcome |-> "none"]
    /\ UNCHANGED <<counter, patience, choose_best, status, row, disk, ndump, rsvars, genvars, bmvars>>

\* do(), the monitored record is absent: count and return.
DoAbsent ==
    /\ pc = "callback"
    /\ row.record = {}
    /\ counter' = counter + 1
    /\ pc' = "train"
    /\ hist' = Append(hist, row.record)
    /\ last' = [branch |-> "absent", outcome |-> "none"]
    /\ UNCHANGED <<patience, choose_best, status, row, disk, ndump, rsvars, genvars, bmvars>>

\* A variant that saves first and records the new best only when the save
\* succeeded.
DoNewBest_SaveFirst(outcome) ==
    /\ pc = "callback"
    /\ \E cur \in row.record :
        /\ IsNewBest(cur, status, choose_best)
        /\ ndump' = ndump + 1
        /\ disk' = DumpDisk(disk, outcome, Len(hist) + 1, cur)
        /\ IF outcome \in Failed
           THEN /\ row' = DumpRow(row, outcome)
                /\ pc' = "raised"
                /\ UNCHANGED <<status, counter>>
           ELSE /\ row' = EndOfDo(DumpRow([row EXCEPT !.notification = TRUE], outcome),
                                  0, patience)
                /\ pc' = "train"
                /\ status' = {cur}
                /\ counter' = 0
    /\ hist' = Append(hist, row.record)
    /\ last' = [branch |-> "new_best", outcome |-> outcome]
    /\ UNCHANGED <<patience, choose_best, rsvars, genvars, bmvars>>

\* do(), the current value is a new best: status, notification, counter, _dump,
\* and, when _dump returned, the tail of do().
DoNewBest(outcome) ==
    /\ pc = "callback"
    /\ \E cur \in row.record :
        /\ IsNewBest(cur, status, choose_best)
        /\ status' = {cur}
        /\ counter' = 0
        /\ ndump' = ndump + 1
        /\ disk' = DumpDisk(disk, outcome, Len(hist) + 1, cur)
        /\ LET r1 == DumpRow([row EXCEPT !.notification = TRUE], outcome)
           IN  IF outcome \in Failed
               THEN row' = r1 /\ pc' = "raised"
               ELSE row' = EndOfDo(r1, 0, patience) /\ pc' = "train"
    /\ hist' = Append(hist, row.record)
    /\ last' = [branch |-> "new_best", outcome |-> outcome]
    /\ UNCHANGED <<patience, choose_best, rsvars, genvars, bmvars>>

\* do(), the current value is no improvement: count, then the tail of do().
DoNoImprovement ==
    /\ pc = "callback"
    /\ \E cur \in row.record :
        /\ ~IsNewBest(cur, status, choose_best)
        /\ counter' = counter + 1
        /\ row' = EndOfDo(row, counter + 1, patience)
    /\ pc' = "train"
    /\ hist' = Append(hist, row.record)
    /\ last' = [branch |-> "no_improvement", outcome |-> "none"]
    /\ UNCHANGED <<patience, choose_best, status, disk, ndump, rsvars, genvars, bmvars>>

\* The main loop ends an epoch: a new current row, holding the monitored
\* record or not, and the after_epoch callback is due.  The loop stops once
\* a row requests the end of training.
NextRow(rec) ==
    /\ pc = "train"
    /\ ~row.training_finish_requested
    /\ Len(hist) < MaxEpochs
    /\ row' = FreshRow(rec)
    /\ pc' = "callback"
    /\ UNCHANGED <<counter, patience, choose_best, status, disk, hist, last, ndump, rsvars, genvars, bmvars>>

\* The caller of the main loop catches the error of a failed save and runs
\* the loop again with the same extension object.
Resume ==
    /\ pc = "raised"
    /\ pc' = "train"
    /\ UNCHANGED <<counter, patience, choose_best, status, row, disk, hist, last, ndump, rsvars, genvars, bmvars>>

ESInit ==
    /\ counter = 0
    /\ patience \in 1..MaxPatience
    /\ choose_best \in Selectors
    /\ status = {}
    /\ row = FreshRow({})
    /\ disk = [log |-> {}, best |-> {}]
    /\ pc = "train"
    /\ hist = <<>>
    /\ last = [branch |-> "none", outcome |-> "none"]
    /\ ndump = 0

\* The extension left alone (the other specifications).
ESIdle ==
    /\ counter = 0
    /\ patience = 1
    /\ choose_best = "min"
    /\ status = {}
    /\ row = FreshRow({})
    /\ disk = [log |-> {}, best |-> {}]
    /\ pc = "idle"
    /\ hist = <<>>
    /\ last = [branch |-> "none", outcome |-> "none"]
    /\ ndump = 0

ESNext ==
    \/ \E rec \in {{}} \cup {{v} : v \in Values} : NextRow(rec)
    \/ DoAbsent
    \/ \E outcome \in SaveOutcomes : DoNewBest(outcome)
    \/ DoNoImprovement
    \/ Resume

\* --------------------------------------------------------- ResetStates

StateVarIds == 1..NumStateVars

\* A cell of a tensor is 0 or 1, where 1 stands for any nonzero value.
Tensors == [1..TensorSize -> {0, 1}]

\* v.zeros_like()
ZerosLike(t) == [i \in DOMAIN t |-> 0]

\* A variant that builds the update list from the first state variable only.
ResetUpdates_FirstOnly(sv, targets) ==
    [v \in DOMAIN sv |->
        IF v \in targets /\ \A u \in targets : v <= u THEN ZerosLike(sv[v]) ELSE sv[v]]

\* The updates of the function compiled in __init__, applied together:
\* (v, v.zeros_like()) for every v of state_vars.
ResetUpdates(sv, targets) ==
    [v \in DOMAIN sv |-> IF v \in targets THEN ZerosLike(sv[v]) ELSE sv[v]]

\* ResetStates.do: self.f()
ResetStatesDo ==
    /\ state_vars' = ResetUpdates(state_vars, reset_vars)
    /\ rs_last' = "reset"
    /\ UNCHANGED <<reset_vars, esvars, genvars, bmvars>>

\* A call of another compiled function (a training or generation step) whose
\* updates write tensor t to state variable v.
FunctionCall(v, t) ==
    /\ state_vars' = [state_vars EXCEPT ![v] = t]
    /\ rs_last' = "call"
    /\ UNCHANGED <<reset_vars, esvars, genvars, bmvars>>

\* The state tensors start at zero; ResetStates is built on some of them.
RSInit ==
    /\ state_vars = [v \in StateVarIds |-> [i \in 1..TensorSize |-> 0]]
    /\ reset_vars \in (SUBSET StateVarIds) \ {{}}
    /\ rs_last = "none"

\* The state tensors left alone (the other specifications).
RSIdle ==
    /\ state_vars = [v \in StateVarIds |-> [i \in 1..TensorSize |-> 0]]
    /\ reset_vars = StateVarIds
    /\ rs_last = "none"

RSNext ==
    \/ ResetStatesDo
    \/ \E v \in StateVarIds, t \in Tensors : FunctionCall(v, t)


\* C7: after ResetStates.do every state variable given at construction is
\* all-zero whatever it held before, all of them in the one step of the call,
\* and that step changes no other state variable.
C7_ResetZeroesAll ==
    /\ [](rs_last = "reset" =>
            \A v \in reset_vars : \A i \in 1..TensorSize : state_vars[v][i] = 0)
    /\ [][rs_last' = "reset" =>
            /\ \A v \in reset_vars : \A i \in 1..TensorSize : state_vars'[v][i] = 0
            /\ \A v \in StateVarIds \ reset_vars : state_vars'[v] = state_vars[v]]_vars

\* A reset has just cleared two or more tensors that a function call had
\* made nonzero.
C7_Witness ==
    /\ rs_last = "reset"
    /\ Cardinality(reset_vars) >= 2
    /\ \A v \in reset_vars : \A i \in 1..TensorSize : state_vars[v][i] = 0
    /\ \E v \in StateVarIds : \E i \in 1..TensorSize : state_vars[v][i] = 1

\* ------------------------------------------- TextGenerationExtension

Syms == 0..(VocabSize - 1)
Hidden == 0..MaxHidden
ZeroState == 0

\* The vocabulary of the dataset, get_character(dataset): the character of
\* every index.  <<"c", VocabSize>> is a character that is not in it.
Vocab == [i \in Syms |-> <<"c", i>>]
Chars == {<<"c", i>> : i \in 0..VocabSize}

\* The trained model: a recurrent cell h' = Step(h, x) and an output layer
\* that favours symbol Favoured(h), both fixed by the weights m.
Models == [wh : {0, 1}, wx : {0, 1}, wo : {0, 1}]
Step(m, h, x) == (m.wh * h + m.wx * x + 1) % (MaxHidden + 1)
Favoured(m, h) == (m.wo * h) % VocabSize

\* The hidden state after the cell has read seq from state h.
RECURSIVE RunFrom(_, _, _)
RunFrom(m, h, seq) ==
    IF seq = <<>> THEN h ELSE RunFrom(m, Step(m, h, Head(seq)), Tail(seq))

\* presoft[-1:, 0, :], the pre-softmax output of the last timestep.
LastPresoft(m, h) == [k \in Syms |-> IF k = Favoured(m, h) THEN 1 ELSE 0]

\* The number of dimensions of presoft[-1:, 0, :] and of what sample returns
\* (np.argmax(probs, axis=1) and np.digitize(random_sample(1), bins)).
LastPresoftNdim == 2
SampleNdim == 1

RECURSIVE SumUpTo(_, _)
SumUpTo(e, k) == IF k < 0 THEN 0 ELSE e[k] + SumUpTo(e, k - 1)

\* softmax: e = exp(w), dist = e / sum(e); exp is taken to base 2 and the
\* distribution kept as numerators over the common denominator.
Softmax(w) ==
    LET e == [k \in DOMAIN w |-> 2 ^ w[k]]
    IN  [num |-> e, den |-> SumUpTo(e, VocabSize - 1)]

\* np.argmax: the first index of the largest probability.
Argmax(probs) ==
    CHOOSE k \in Syms :
        /\ \A j \in Syms : probs.num[j] <= probs.num[k]
        /\ \A j \in Syms : j < k => probs.num[j] < probs.num[k]

\* np.digitize(u, np.add.accumulate(probs)): the number of bins that are <= u,
\* for the random number u / den of [0, 1).
Digitize(u, probs) == Cardinality({k \in Syms : SumUpTo(probs.num, k) <= u})

\* sample(probs, argmax)
Sample(probs, argmax, u) == IF argmax THEN Argmax(probs) ELSE Digitize(u, probs)

\* a[:, None, :] on an array of ndim dimensions: the two slices need two
\* dimensions, otherwise numpy raises IndexError.
NewAxisIndexOk(ndim) == ndim >= 2

\* A variant that resets for every dataset.
ResetFlag_Always(hi) == TRUE

\* The reset argument of carry_hidden_state in __init__.
ResetFlag(hi) == ~hi

\* carry_hidden_state: the state a call of self.generate starts from, and what
\* the call leaves in the persistent state.
GenerateStart(reset, persistent) == IF reset THEN ZeroState ELSE persistent
GenerateUpdate(reset, persistent, final) == IF reset THEN persistent ELSE final

\* np.where(vocab == char)[0]: the indices of char in the vocabulary.
RECURSIVE WhereFrom(_, _)
WhereFrom(i, char) ==
    IF i >= VocabSize THEN <<>>
    ELSE (IF Vocab[i] = char THEN <<i>> ELSE <<>>) \o WhereFrom(i + 1, char)

\* np.array(initial_code): an integer array of one column, an array of no
\* column when every code is empty, and for codes of different lengths an
\* object array or a ValueError, depending on the numpy release.
ArrayKinds(codes) ==
    IF \A i \in DOMAIN codes : Len(codes[i]) = 1 THEN {"int"}
    ELSE IF \A i \in DOMAIN codes : Len(codes[i]) = 0 THEN {"empty"}
    ELSE {"object", "ValueError"}

\* The run ends, returning (err = "none") or raising err, after invoked
\* invocations of self.generate: its locals are gone, and its result is
\* appended to runs when results are collected.
EndRun(err, invoked) ==
    /\ g_pc' = "idle"
    /\ g_entry' = "none"
    /\ g_prefix' = <<>>
    /\ g_codes' = <<>>
    /\ g_arr' = "int"
    /\ g_text' = <<>>
    /\ g_i' = 0
    /\ g_n' = 0
    /\ g_invoked' = 0
    /\ runs' = IF collect
               THEN Append(runs, [entry |-> g_entry, prefix |-> g_prefix, codes |-> g_codes,
                                  n |-> g_n, ok |-> (err = "none"), err |-> err,
                                  out |-> SubSeq(g_text, Len(g_text) - g_i + 1, Len(g_text)),
                                  invoked |-> invoked])
               ELSE runs

\* A call of self.generate on seq that returns.
GenerateCall(seq) ==
    LET reset == ResetFlag(has_indices)
        start == GenerateStart(reset, gen_state)
        final == RunFrom(model, start, seq)
    IN  /\ g_start' = start
        /\ g_out' = Favoured(model, final)
        /\ gen_state' = GenerateUpdate(reset, gen_state, final)
        /\ gen_calls' = 1 - gen_calls

\* do(), up to the loop: init_ = all_sequence[:self.init_length].
DoStart(all_sequence) ==
    /\ g_pc = "idle"
    /\ collect => Len(runs) < MaxRuns
    /\ g_entry' = "do"
    /\ g_prefix' = SubSeq(all_sequence, 1, init_length)
    /\ g_text' = SubSeq(all_sequence, 1, init_length)
    /\ g_codes' = <<>>
    /\ g_arr' = "int"
    /\ g_i' = 0
    /\ g_n' = generation_length
    /\ g_invoked' = 0
    /\ g_pc' = "loop"
    /\ UNCHANGED <<gencfg, gen_state, gen_calls, g_start, g_out, runs, esvars, rsvars, bmvars>>

\* do(), one iteration of the loop on an index dataset: generate, softmax,
\* sample, sample(...)[:, None, :], vstack.
GenStepDoIndices(u) ==
    /\ g_pc = "loop" /\ g_entry = "do" /\ has_indices /\ g_i < g_n
    /\ GenerateCall(g_text)
    /\ LET final == RunFrom(model, GenerateStart(ResetFlag(has_indices), gen_state), g_text)
           probs == Softmax(LastPresoft(model, final))
       IN  /\ u < probs.den
           /\ IF NewAxisIndexOk(SampleNdim)
              THEN /\ g_text' = Append(g_text, Sample(probs, softmax_sampling = "argmax", u))
                   /\ g_i' = g_i + 1
                   /\ g_invoked' = g_invoked + 1
                   /\ UNCHANGED <<g_pc, g_entry, g_prefix, g_codes, g_arr, g_n, runs>>
              ELSE EndRun("IndexError", g_invoked + 1)
    /\ UNCHANGED <<gencfg, esvars, rsvars, bmvars>>

\* do(), one iteration of the loop on a continuous dataset: generate,
\* last_presoft[:, None, :], vstack.
GenStepDoContinuous ==
    /\ g_pc = "loop" /\ g_entry = "do" /\ ~has_indices /\ g_i < g_n
    /\ GenerateCall(g_text)
    /\ LET final == RunFrom(model, GenerateStart(ResetFlag(has_indices), gen_state), g_text)
       IN  IF NewAxisIndexOk(LastPresoftNdim)
           THEN /\ g_text' = Append(g_text, Favoured(model, final))
                /\ g_i' = g_i + 1
                /\ g_invoked' = g_invoked + 1
                /\ UNCHANGED <<g_pc, g_entry, g_prefix, g_codes, g_arr, g_n, runs>>
           ELSE EndRun("IndexError", g_invoked + 1)
    /\ UNCHANGED <<gencfg, esvars, rsvars, bmvars>>

\* do() and interactive_generate(), after the loop: the text is converted to
\* characters (vocab[whole_sentence_code[:, 0]] needs an array with a column).
GenFinish ==
    /\ g_pc = "loop" /\ g_i = g_n
    /\ EndRun(IF g_arr = "int" THEN "none" ELSE "IndexError", g_invoked)
    /\ UNCHANGED <<gencfg, gen_state, gen_calls, g_start, g_out, esvars, rsvars, bmvars>>

\* interactive_generate(), up to the loop: the characters are looked up and
\* the codes made an array.
InteractiveStart(initial_text, glen) ==
    /\ g_pc = "idle"
    /\ collect => Len(runs) < MaxRuns
    /\ has_indices
    /\ LET codes == [i \in 1..Len(initial_text) |-> WhereFrom(0, initial_text[i])]
       IN  \E kind \in ArrayKinds(codes) :
             IF kind = "ValueError"
             THEN /\ g_pc' = "idle"
                  /\ runs' = IF collect
                             THEN Append(runs, [entry |-> "interactive", prefix |-> initial_text,
                                                codes |-> codes, n |-> glen, ok |-> FALSE,
                                                err |-> "ValueError", out |-> <<>>, invoked |-> 0])
                             ELSE runs
                  /\ UNCHANGED <<g_entry, g_prefix, g_codes, g_arr, g_text, g_i, g_n, g_invoked>>
             ELSE /\ g_pc' = "loop"
                  /\ g_entry' = "interactive"
                  /\ g_prefix' = initial_text
                  /\ g_codes' = codes
                  /\ g_arr' = kind
                  /\ g_text' = IF kind = "int" THEN [i \in 1..Len(codes) |-> codes[i][1]] ELSE <<>>
                  /\ g_i' = 0
                  /\ g_n' = glen
                  /\ g_invoked' = 0
                  /\ UNCHANGED runs
    /\ UNCHANGED <<gencfg, gen_state, gen_calls, g_start, g_out, esvars, rsvars, bmvars>>

\* interactive_generate(), one iteration of the loop on an integer array:
\* generate, softmax, sample, vstack.
GenStepInteractive(u) ==
    /\ g_pc = "loop" /\ g_entry = "interactive" /\ g_arr = "int" /\ g_i < g_n
    /\ GenerateCall(g_text)
    /\ LET final == RunFrom(model, GenerateStart(ResetFlag(has_indices), gen_state), g_text)
           probs == Softmax(LastPresoft(model, final))
       IN  /\ u < probs.den
           /\ g_text' = Append(g_text, Sample(probs, softmax_sampling = "argmax", u))
    /\ g_i' = g_i + 1
    /\ g_invoked' = g_invoked + 1
    /\ UNCHANGED <<gencfg, g_pc, g_entry, g_prefix, g_codes, g_arr, g_n, runs, esvars, rsvars, bmvars>>

\* interactive_generate(), the first iteration of the loop on an array that
\* is not an integer array of one column: self.generate is invoked and the
\* iteration raises (the compiled function rejects an object array; with no
\* column it fails on the empty batch, or sample's assertion fails).
GenStepInteractiveBadArray(err) ==
    /\ g_pc = "loop" /\ g_entry = "interactive" /\ g_arr # "int" /\ g_i < g_n
    /\ err \in (IF g_arr = "object" THEN {"TypeError"} ELSE {"ValueError", "AssertionError"})
    /\ EndRun(err, g_invoked + 1)
    /\ UNCHANGED <<gencfg, gen_state, gen_calls, g_start, g_out, esvars, rsvars, bmvars>>

GenRunIdle ==
    /\ gen_state = ZeroState
    /\ g_start = ZeroState
    /\ g_out = 0
    /\ g_pc = "idle"
    /\ g_entry = "none"
    /\ g_prefix = <<>>
    /\ g_codes = <<>>
    /\ g_arr = "int"
    /\ g_text = <<>>
    /\ g_i = 0
    /\ g_n = 0
    /\ g_invoked = 0
    /\ gen_calls = 0
    /\ runs = <<>>

\* __init__: the configuration and the trained model; the persistent state
\* starts at zero.
GenInit ==
    /\ has_indices \in BOOLEAN
    /\ softmax_sampling \in {"argmax", "random_sample"}
    /\ generation_length \in 0..MaxGenLength
    /\ init_length \in 1..MaxPrefix
    /\ model \in Models
    /\ GenRunIdle

\* The extension left alone (the other specifications).
GenIdle ==
    /\ has_indices = TRUE
    /\ softmax_sampling = "argmax"
    /\ generation_length = 0
    /\ init_length = 1
    /\ model = [wh |-> 0, wx |-> 0, wo |-> 0]
    /\ collect = FALSE
    /\ GenRunIdle

Texts == UNION {[1..n -> Chars] : n \in 1..MaxPrefix}

\* Runs of do and of interactive_generate, one after the other.
GenNext ==
    \/ \E all_sequence \in [1..MaxPrefix -> Syms] : DoStart(all_sequence)
    \/ \E u \in 0..(2 * VocabSize - 1) : GenStepDoIndices(u)
    \/ GenStepDoContinuous
    \/ GenFinish
    \/ \E initial_text \in Texts, glen \in 0..MaxGenLength : InteractiveStart(initial_text, glen)
    \/ \E u \in 0..(2 * VocabSize - 1) : GenStepInteractive(u)
    \/ \E err \in {"TypeError", "ValueError", "AssertionError"} : GenStepInteractiveBadArray(err)

\* ------------------------------------------------------- graph builders

RnnTypes == {"lstm", "simple", "clockwork", "soft"}
Timesteps(seq) == 0..(Len(seq) - 1)

\* Python's bounds of a slice of a sequence of n items: a negative bound
\* counts from the end, and a bound outside the sequence is clipped.
SliceBound(k, n) ==
    IF k < 0 THEN (IF n + k < 0 THEN 0 ELSE n + k) ELSE (IF k > n THEN n ELSE k)

\* tensor.set_subtensor(v[k:], zeros_like(v[k:])), timestep t being v[t + 1].
ZeroFrom(v, k) ==
    [i \in DOMAIN v |-> IF i - 1 >= SliceBound(k, Len(v)) THEN 0 ELSE v[i]]

\* tensor.set_subtensor(v[:k], zeros_like(v[:k])).
ZeroUpTo(v, k) ==
    [i \in DOMAIN v |-> IF i - 1 < SliceBound(k, Len(v)) THEN 0 ELSE v[i]]

OnesLike(v) == [i \in DOMAIN v |-> 1]

\* A Python bool used as a number.
BoolInt(b) == IF b THEN 1 ELSE 0

\* get_prernn, the features that are forked: on a continuous dataset with
\* used_inputs configured, x[used_inputs:] is set to zero.
PrernnInput(a, x) ==
    IF a.has_indices THEN x
    ELSE IF a.used_inputs # {} THEN ZeroFrom(x, CHOOSE u \in a.used_inputs : TRUE)
    ELSE x

\* A variant that zeroes the mask from the horizon on.
CostMask_FromHorizon(a, y) ==
    LET m == ZeroUpTo(OnesLike(y), a.context)
    IN  IF a.has_indices THEN m
        ELSE IF a.used_inputs # {} THEN ZeroFrom(m, CHOOSE u \in a.used_inputs : TRUE)
        ELSE m

\* get_costs, y_mask: ones, zero over [:context] and, on a continuous dataset
\* with used_inputs configured, zero over [:used_inputs].
CostMask(a, y) ==
    LET m == ZeroUpTo(OnesLike(y), a.context)
    IN  IF a.has_indices THEN m
        ELSE IF a.used_inputs # {} THEN ZeroUpTo(m, CHOOSE u \in a.used_inputs : TRUE)
        ELSE m

\* get_presoft: use_all_states.
UseAllStates(a) ==
    a.skip_connections \/ a.skip_output \/ a.rnn_type \in {"clockwork", "soft"}

\* get_presoft: the input_dim given to the output layer.
PresoftInputDim(a) ==
    BoolInt(UseAllStates(a)) * a.layers * a.state_dim
        + (1 - BoolInt(UseAllStates(a))) * a.state_dim

\* build_model: the input_dim given to the output layer.
BuildModelInputDim(a) == a.layers * a.state_dim

\* build_model(vocab_size, args): the transitions exist for "lstm" and
\* "simple" only (any other rnn_type raises before the output layer is made).
BuildModel ==
    /\ bm_fn' = "build_model"
    /\ output_layer' = IF args.rnn_type \in {"lstm", "simple"}
                       THEN {[builder |-> "build_model", input_dim |-> BuildModelInputDim(args)]}
                       ELSE {}
    /\ bm_in' = <<>>
    /\ bm_out' = <<>>
    /\ UNCHANGED <<args, esvars, rsvars, genvars>>

\* get_presoft(h, args).
GetPresoft ==
    /\ bm_fn' = "get_presoft"
    /\ output_layer' = {[builder |-> "get_presoft", input_dim |-> PresoftInputDim(args)]}
    /\ bm_in' = <<>>
    /\ bm_out' = <<>>
    /\ UNCHANGED <<args, esvars, rsvars, genvars>>

\* get_prernn(args), its graph given the batch x.
GetPrernn(x) ==
    /\ bm_fn' = "get_prernn"
    /\ bm_in' = x
    /\ bm_out' = PrernnInput(args, x)
    /\ output_layer' = {}
    /\ UNCHANGED <<args, esvars, rsvars, genvars>>

\* get_costs(presoft, args), its graph given the targets y.
GetCosts(y) ==
    /\ bm_fn' = "get_costs"
    /\ bm_in' = y
    /\ bm_out' = CostMask(args, y)
    /\ output_layer' = {}
    /\ UNCHANGED <<args, esvars, rsvars, genvars>>

\* Batches of features (nonzero values) and of targets (their values are not
\* read by the mask), of 1..MaxTime timesteps.
Batches == UNION {[1..n -> {1, 2}] : n \in 1..MaxTime}
Targets == {[i \in 1..n |-> 1] : n \in 1..MaxTime}

Args ==
    [layers : 1..MaxLayers, state_dim : 1..MaxStateDim, rnn_type : RnnTypes,
     skip_connections : BOOLEAN, skip_output : BOOLEAN,
     context : 0..MaxTime,
     used_inputs : {{}} \cup {{u} : u \in -1..(MaxTime + 1)},
     has_indices : BOOLEAN]

BMRunIdle ==
    /\ bm_fn = "none"
    /\ bm_in = <<>>
    /\ bm_out = <<>>
    /\ output_layer = {}

BMInit ==
    /\ args \in Args
    /\ BMRunIdle

\* The builders left alone (the other specifications).
BMIdle ==
    /\ args = [layers |-> 1, state_dim |-> 1, rnn_type |-> "lstm",
               skip_connections |-> FALSE, skip_output |-> FALSE, context |-> 0,
               used_inputs |-> {}, has_indices |-> TRUE]
    /\ BMRunIdle

BMNext ==
    \/ BuildModel
    \/ GetPresoft
    \/ \E x \in Batches : GetPrernn(x)
    \/ \E y \in Targets : GetCosts(y)

\* ------------------------------------------------------ specifications

Init == ESInit /\ RSIdle /\ GenIdle /\ BMIdle
Next == ESNext
Spec == Init /\ [][Next]_vars

InitRS == ESIdle /\ RSInit /\ GenIdle /\ BMIdle
SpecRS == InitRS /\ [][RSNext]_vars

\* At most MaxRuns runs, their results collected in runs.
InitGen == ESIdle /\ RSIdle /\ GenInit /\ BMIdle /\ collect = TRUE
SpecGen == InitGen /\ [][GenNext]_vars

\* Any number of runs, no results collected.
InitCarry == ESIdle /\ RSIdle /\ GenInit /\ BMIdle /\ collect = FALSE
SpecCarry == InitCarry /\ [][GenNext]_vars

\* The graph builders, called in any order on one configuration.
InitBM == ESIdle /\ RSIdle /\ GenIdle /\ BMInit
SpecBM == InitBM /\ [][BMNext]_vars

\* ------------------------------------------------ EarlyStopping: claims

\* A trigger has ended (do() returned or raised) and the current row is
\* still the row that trigger saw.
TriggerEnded == pc # "callback" /\ last.branch # "none"

\* do() ran to its last statement: the record was present and no save failed.
DoCompleted ==
    /\ TriggerEnded
    /\ last.branch \in {"new_best", "no_improvement"}
    /\ last.outcome \notin Failed

Val(s) == CHOOSE v \in s : TRUE

\* C1 (as stated): after every trigger, whatever branch it took, a counter
\* that has reached patience means the row requests the end of training.
C1_FlagAfterEveryTrigger ==
    TriggerEnded => (counter >= patience => row.training_finish_requested)

\* C1 (amended): after every trigger that ran do() to its end (record present,
\* no failed save), a counter that has reached patience means the row requests
\* the end of training.
C1_FlagWhenDoCompletes ==
    DoCompleted => (counter >= patience => row.training_finish_requested)

C1_Witness ==
    DoCompleted /\ counter > patience /\ row.training_finish_requested

\* C2 (as stated): on every trigger, for every branch, the row holds the
\* counter under 'patience' when the trigger has returned.
C2_PatienceOnEveryBranch ==
    (TriggerEnded /\ pc = "train" /\ last.outcome \notin Failed)
        => row.patience = {counter}

\* C2 (amended): on every trigger that ran do() to its end (record present, no
\* failed save) the row holds the counter under 'patience'.
C2_PatienceWhenDoCompletes == DoCompleted => row.patience = {counter}

C2_Witness ==
    DoCompleted /\ last.branch = "no_improvement" /\ counter = 2 /\ row.patience = {2}

\* C3: a trigger whose row lacks the monitored record raises nothing, adds
\* exactly one to the counter and leaves the best value, the notification,
\* the row's save marker and the files untouched, with no call of _dump.
C3_AbsentMetricOnlyCounts ==
    [][(pc = "callback" /\ row.record = {}) =>
          /\ pc' = "train"
          /\ counter' = counter + 1
          /\ status' = status
          /\ row'.notification = row.notification
          /\ row'.saved_best_to = row.saved_best_to
          /\ disk' = disk
          /\ ndump' = ndump]_vars

C3_Witness ==
    /\ TriggerEnded /\ last.branch = "absent" /\ pc = "train"
    /\ status # {} /\ disk.best # {} /\ counter >= 1

\* C4: when the log write or the parameter dump fails, the trigger ends by
\* raising with 'saved_best_to' set to None; and the row holds the checkpoint
\* path only when the save of that row succeeded.
C4_FailedSaveClearsAndRaises ==
    /\ [](row.saved_best_to = "best_path" =>
            (last.branch = "new_best" /\ last.outcome = "ok"))
    /\ [][(pc = "callback" /\ last'.outcome \in Failed) =>
            (pc' = "raised" /\ row'.saved_best_to = "None")]_vars

C4_Witness ==
    pc = "raised" /\ last.outcome = "dump_fail" /\ row.saved_best_to = "None"

\* Every trigger so far saw the same, present, value.
ConstantRun ==
    /\ Len(hist) >= 1
    /\ \A i \in 1..Len(hist) : hist[i] # {} /\ hist[i] = hist[1]

\* C5: with a constant metric the first trigger sets the best and leaves the
\* counter at 0, every later trigger adds one to the counter and saves
\* nothing, and the end of training is requested exactly on the trigger at
\* which the counter equals patience.
C5_ConstantMetric ==
    (TriggerEnded /\ ConstantRun) =>
        /\ status = hist[1]
        /\ counter = Len(hist) - 1
        /\ ndump = 1
        /\ row.training_finish_requested <=> (counter = patience)
        /\ Len(hist) > 1 =>
              /\ last.branch = "no_improvement"
              /\ ~row.notification
              /\ row.saved_best_to = "absent"

C5_Witness ==
    /\ TriggerEnded /\ ConstantRun /\ Len(hist) >= 3
    /\ counter = patience /\ row.training_finish_requested

\* Every trigger so far saw a present value strictly better, under the
\* configured selector, than the one before.
StrictlyImproving ==
    /\ Len(hist) >= 1
    /\ \A i \in 1..Len(hist) : hist[i] # {}
    /\ \A i \in 1..(Len(hist) - 1) :
          IF choose_best = "min" THEN Val(hist[i + 1]) < Val(hist[i])
                                 ELSE Val(hist[i + 1]) > Val(hist[i])

\* The minimum (selector min) or maximum (selector max) of the values seen.
RunningBest ==
    LET S == {Val(hist[i]) : i \in 1..Len(hist)}
    IN  IF choose_best = "min" THEN CHOOSE m \in S : \A x \in S : m <= x
                               ELSE CHOOSE m \in S : \A x \in S : m >= x

\* C6: with a strictly improving metric the counter is 0 after every trigger,
\* the best value in the status is the running minimum (maximum), and every
\* trigger marks the notification and calls _dump.
C6_StrictlyImproving ==
    (TriggerEnded /\ StrictlyImproving) =>
        /\ counter = 0
        /\ status = {RunningBest}
        /\ row.notification
        /\ last.branch = "new_best"
        /\ ndump = Len(hist)

C6_Witness ==
    /\ TriggerEnded /\ StrictlyImproving /\ Len(hist) >= 3
    /\ choose_best = "max" /\ status = {MaxValue} /\ ndump = 3

\* C13: when _dump raises during a new-best trigger, the status already holds
\* the current value as the best, the counter is already 0 and the
\* notification already True, 'patience' is not recorded in that row and
\* <path>/best is what it was; and a trigger whose value equals the recorded
\* best counts as no improvement and does not call _dump, whatever the files
\* hold.
C13_FailedSaveNotAtomic ==
    /\ [][(pc = "callback" /\ pc' = "raised") =>
            /\ status' = row.record
            /\ counter' = 0
            /\ row'.notification
            /\ row'.patience = {}
            /\ disk'.best = disk.best]_vars
    /\ [][(pc = "callback" /\ row.record # {} /\ row.record = status) =>
            /\ ndump' = ndump
            /\ disk' = disk
            /\ status' = status
            /\ counter' = counter + 1]_vars

\* After a failed save, a later trigger with the same value took the
\* no-improvement branch: _dump ran once, and the recorded best is not the
\* value of the saved model.
C13_Witness ==
    /\ Len(hist) >= 2
    /\ last.branch = "no_improvement"
    /\ row.record = status
    /\ ndump = 1
    /\ disk.best # status

\* ---------------------------------------- TextGenerationExtension: claims

\* C8: with arg-max sampling, every run of do() ends with an output of
\* generation_length symbols, and two runs of do() from the same prefix end
\* with the same output.
C8_ArgmaxRunsAgree ==
    softmax_sampling = "argmax" =>
        \A i, j \in DOMAIN runs :
            (runs[i].entry = "do" /\ runs[j].entry = "do"
                /\ runs[i].prefix = runs[j].prefix) =>
                    /\ runs[i].ok /\ runs[j].ok
                    /\ Len(runs[i].out) = generation_length
                    /\ runs[i].out = runs[j].out

\* C9: on an index dataset a call of self.generate starts from the persistent
\* state, which is the state the previous call left, and leaves the state it
\* ended in; on a continuous dataset a call starts from the zero state and its
\* output is a function of its input sequence alone; and no step of the
\* generation loop other than a call of self.generate changes the persistent
\* state.
C9_StateCarriedUnlessContinuous ==
    /\ [][gen_calls' # gen_calls =>
            IF has_indices
            THEN /\ g_start' = gen_state
                 /\ gen_state' = RunFrom(model, gen_state, g_text)
            ELSE /\ g_start' = ZeroState
                 /\ g_out' = Favoured(model, RunFrom(model, ZeroState, g_text))]_vars
    /\ [][gen_calls' = gen_calls => gen_state' = gen_state]_vars

\* On an index dataset the first call of a run has started from a nonzero
\* state, left by the run before it, and returned.
C9_Witness ==
    /\ has_indices
    /\ g_pc = "loop" /\ g_entry = "interactive" /\ g_invoked = 1
    /\ g_start # ZeroState

HasUnknown(text) == \E i \in DOMAIN text : \A k \in Syms : Vocab[k] # text[i]

\* C10: interactive_generate with a character outside the vocabulary never
\* enters the generation loop and never maps the character to an empty code:
\* the run ends with a lookup error before self.generate is invoked.
C10_UnknownCharRaisesLookupError ==
    /\ (g_entry = "interactive" /\ HasUnknown(g_prefix)) =>
            /\ g_pc # "loop"
            /\ \A k \in DOMAIN g_codes : g_codes[k] # <<>>
    /\ \A i \in DOMAIN runs :
            (runs[i].entry = "interactive" /\ HasUnknown(runs[i].prefix)) =>
                /\ runs[i].err = "LookupError"
                /\ runs[i].invoked = 0

\* ------------------------------------------------ graph builders: claims

\* C11: with more than one layer, the output layer either builder makes has
\* input_dim state_dim when skip_connections is False and layers * state_dim
\* when it is True.
C11_OutputLayerInputDim ==
    \A ol \in output_layer :
        args.layers > 1 =>
            ol.input_dim = IF args.skip_connections
                           THEN args.layers * args.state_dim
                           ELSE args.state_dim

Horizon == CHOOSE u \in args.used_inputs : TRUE
HorizonCase(fn) ==
    /\ bm_fn = fn
    /\ ~args.has_indices
    /\ args.used_inputs # {}
    /\ Horizon >= 0

\* The input part of C12: on a continuous dataset with used_inputs = u >= 0,
\* get_prernn zeroes the input at every timestep t >= u and keeps it at every
\* timestep t < u.
InputZeroFromHorizon ==
    HorizonCase("get_prernn") =>
        \A t \in Timesteps(bm_in) :
            bm_out[t + 1] = IF t >= Horizon THEN 0 ELSE bm_in[t + 1]

\* C12 as stated: the input is zeroed from the horizon on and kept before it,
\* and the target mask is zero at every timestep t >= u and one at every
\* timestep t < u that is not among the first context steps.
C12_MaskZeroFromHorizon ==
    /\ InputZeroFromHorizon
    /\ HorizonCase("get_costs") =>
            \A t \in Timesteps(bm_in) :
                /\ t >= Horizon => bm_out[t + 1] = 0
                /\ (t < Horizon /\ t >= args.context) => bm_out[t + 1] = 1

\* C12 as amended: the input is zeroed from the horizon on and kept before it,
\* and the target mask is zero at every timestep t < u and at the first
\* context steps, and one at every other timestep.
C12_MaskZeroBeforeHorizon ==
    /\ InputZeroFromHorizon
    /\ HorizonCase("get_costs") =>
            \A t \in Timesteps(bm_in) :
                bm_out[t + 1] = IF t < Horizon \/ t < args.context THEN 0 ELSE 1

\* get_costs has built the mask of a batch that reaches past a horizon lying
\* after the context: the mask is zero before the horizon and one from it on.
C12_Witness ==
    /\ HorizonCase("get_costs")
    /\ Horizon > args.context
    /\ Len(bm_in) > Horizon
    /\ bm_out[Horizon] = 0
    /\ bm_out[Horizon + 1] = 1

====
